---- MODULE Spec2Model ----
(***************************************************************************)
(* REVANX signup capture: the validator, the Express signup store with its *)
(* sentinel-file lock (server.js) and the Netlify function handler with    *)
(* its unlocked store and in-memory rate limiter.                          *)
(*                                                                         *)
(* Strings are sequences of one-character strings.  A JavaScript value is  *)
(* a record [t, v]: t is its kind, v its characters when it is a string.   *)
(***************************************************************************)
EXTENDS Integers, Sequences, FiniteSets, TLC

\* ------------------------------------------------------------------ bounds
NumReq == 2
MaxEmailLen == 4
MaxTicks == 2
MaxTagLen == 4
MaxCalls == 7
\* The longest text typed into the email input of the page.
MaxTyped == 5
\* The most requests one page sends to the webhook.
MaxPosts == 2

\* ------------------------------------------------------- program constants
maxAttempts == 10
NameMax == 100
FieldMax == 500
MaxLabelMid == 61
rateLimitMax == 5
rateLimitWindow == 900000

\* ------------------------------------------------------------- JS values
Str(s) == [t |-> "string", v |-> s]
Undef == [t |-> "undefined", v |-> <<>>]
Null == [t |-> "null", v |-> <<>>]
JsTrue == [t |-> "true", v |-> <<>>]
JsFalse == [t |-> "false", v |-> <<>>]
JsZero == [t |-> "zero", v |-> <<>>]
JsNum == [t |-> "number", v |-> <<>>]
JsObj == [t |-> "object", v |-> <<>>]

\* ToBoolean: undefined, null, false, 0 and "" are falsy.
Truthy(x) ==
    IF x.t = "string" THEN x.v # <<>> ELSE x.t \in {"true", "number", "object", "array"}

IsString(x) == x.t = "string"

\* ------------------------------------------------------ string functions
Whitespace == {" "}
Upper == {"A", "B"}
Lower == {"a", "b"}
Digits == {"0"}
AlNum == Upper \cup Lower \cup Digits

lowerOf(c) == CASE c = "A" -> "a" [] c = "B" -> "b" [] OTHER -> c

toLowerCase(s) == [i \in 1..Len(s) |-> lowerOf(s[i])]

RECURSIVE trimStart(_)
trimStart(s) ==
    IF s # <<>> /\ Head(s) \in Whitespace THEN trimStart(Tail(s)) ELSE s

RECURSIVE trimEnd(_)
trimEnd(s) ==
    IF s # <<>> /\ s[Len(s)] \in Whitespace THEN trimEnd(SubSeq(s, 1, Len(s) - 1)) ELSE s

trim(s) == trimEnd(trimStart(s))

\* String.prototype.substring(0, n)
substring0(s, n) == IF Len(s) <= n THEN s ELSE SubSeq(s, 1, n)

\* str.replace with the global tag pattern and the empty string: scanning from the
\* left, the first opening angle bracket that has a closing one somewhere after it
\* is removed together with everything up to the nearest closing one, and the scan
\* goes on behind it.
RECURSIVE stripHtml(_)
stripHtml(s) ==
    LET closes == {j \in 1..Len(s) : s[j] = ">"}
        opens == {i \in 1..Len(s) : s[i] = "<" /\ \E j \in closes : i < j}
    IN IF opens = {} THEN s
       ELSE LET i == CHOOSE k \in opens : \A m \in opens : k <= m
                j == CHOOSE k \in closes : i < k /\ \A m \in closes : i < m => k <= m
            IN SubSeq(s, 1, i - 1) \o stripHtml(SubSeq(s, j + 1, Len(s)))

\* The character class of the local part of emailRegex (letters, digits, punctuation).
\* (The apostrophe and the backquote of the class are left out of the alphabet.)
LocalChars == AlNum \cup {".", "!", "#", "$", "%", "&", "*", "+", "/", "=", "?", "^",
                          "_", "{", "|", "}", "~", "-"}

\* One hostname label: an alphanumeric, then optionally up to 61 alphanumerics or
\* hyphens followed by an alphanumeric.
IsLabel(l) ==
    /\ Len(l) >= 1
    /\ l[1] \in AlNum
    /\ Len(l) > 1 =>
         /\ l[Len(l)] \in AlNum
         /\ Len(l) - 2 <= MaxLabelMid
         /\ \A i \in 2..(Len(l) - 1) : l[i] \in AlNum \cup {"-"}

\* Labels separated by dots.
RECURSIVE IsHost(_)
IsHost(d) ==
    IF \E i \in 1..Len(d) : d[i] = "."
    THEN LET i == CHOOSE k \in 1..Len(d) : d[k] = "." /\ \A m \in 1..(k - 1) : d[m] # "."
         IN IsLabel(SubSeq(d, 1, i - 1)) /\ IsHost(SubSeq(d, i + 1, Len(d)))
    ELSE IsLabel(d)

\* emailRegex.test(s): one or more local characters, an at sign, a host, anchored.
emailRegexTest(s) ==
    \E i \in 2..(Len(s) - 1) :
        /\ s[i] = "@"
        /\ \A k \in 1..(i - 1) : s[k] \in LocalChars
        /\ IsHost(SubSeq(s, i + 1, Len(s)))

\* --------------------------------------------------------------- validator
\* A parsed request body: its kind and, for an object, the six fields read from it.
Body(t, name, email, consent, timestamp, userAgent, referrer) ==
    [t |-> t, name |-> name, email |-> email, consent |-> consent,
     timestamp |-> timestamp, userAgent |-> userAgent, referrer |-> referrer]

NoData ==
    [name |-> Null, email |-> Null, consent |-> Null, timestamp |-> Null,
     userAgent |-> Null, referrer |-> Null]

Reject(msg) == [kind |-> "reject", message |-> msg, data |-> NoData]
Accept(d) == [kind |-> "ok", message |-> "", data |-> d]
\* A TypeError thrown out of validateInput.
Throw == [kind |-> "throw", message |-> "TypeError", data |-> NoData]
Pending == [kind |-> "pending", message |-> "", data |-> NoData]

\* new Date().toISOString()
isoNow == Str(<<"n", "o", "w">>)

\* !body || typeof body !== 'object': null is falsy, arrays are objects.
notObject(body) == ~(body.t \in {"object", "array"})

\* !email || typeof email !== 'string'
emailMissing(email) == ~Truthy(email) \/ ~IsString(email)

\* A normalisation that trims and forgets to lower-case.
cleanEmailNotLowered(email) == trim(email.v)

\* email.trim().toLowerCase()
cleanEmailOf(email) == toLowerCase(trim(email.v))

\* A name that is trimmed and truncated but not stripped.
cleanNameNotStripped(name) ==
    IF Truthy(name) THEN Str(substring0(trim(name.v), NameMax)) ELSE Null

\* name ? stripHtml(name.trim()).substring(0, 100) : null
cleanNameOf(name) ==
    IF Truthy(name) THEN Str(substring0(stripHtml(trim(name.v)), NameMax)) ELSE Null

\* x ? stripHtml(x.substring(0, 500)) : null
cleanFieldOf(x) ==
    IF Truthy(x) THEN Str(stripHtml(substring0(x.v, FieldMax))) ELSE Null

\* A truthy value that is no string has neither trim nor substring: the call throws.
callThrows(x) == Truthy(x) /\ ~IsString(x)

validateInput(body) ==
    IF notObject(body) THEN Reject("Invalid request body")
    ELSE IF emailMissing(body.email) THEN Reject("Email is required")
    ELSE IF ~emailRegexTest(cleanEmailOf(body.email)) THEN Reject("Invalid email format")
    ELSE IF ~Truthy(body.consent) THEN Reject("Consent is required")
    ELSE IF callThrows(body.name) \/ callThrows(body.userAgent) \/ callThrows(body.referrer)
         THEN Throw
    ELSE Accept([name |-> cleanNameOf(body.name),
                 email |-> Str(cleanEmailOf(body.email)),
                 consent |-> JsTrue,
                 timestamp |-> IF Truthy(body.timestamp) THEN body.timestamp ELSE isoNow,
                 userAgent |-> cleanFieldOf(body.userAgent),
                 referrer |-> cleanFieldOf(body.referrer)])

\* ------------------------------------------------------ validator inputs
RECURSIVE SeqsUpTo(_, _)
SeqsUpTo(S, n) ==
    IF n = 0 THEN {<<>>}
    ELSE LET shorter == SeqsUpTo(S, n - 1)
         IN shorter \cup {Append(q, c) : q \in shorter, c \in S}

EmailAlphabet == {"a", "B", " ", "@", ".", "-"}
EmailStrs(n) == SeqsUpTo(EmailAlphabet, n)

EmailValues(n) == {Undef, Null, JsNum} \cup {Str(e) : e \in EmailStrs(n)}
ConsentValues == {Undef, JsFalse, JsZero, JsTrue, Str(<<"y">>)}
NameValues == {Undef, Str(<<" ", "A", " ">>), JsNum}
AgentValues == {Undef, Str(<<"<", "b", ">", "a">>)}

ObjectBodies(len) ==
    {Body("object", n, e, c, Undef, u, Undef) :
        n \in NameValues, e \in EmailValues(len), c \in ConsentValues, u \in AgentValues}

\* Bodies that are no object, and an array (an object without the fields).
OtherBodies ==
    {Body(t, Undef, Undef, Undef, Undef, Undef, Undef) :
        t \in {"undefined", "null", "string", "number", "array"}}

ValBodies(len) == ObjectBodies(len) \cup OtherBodies

\* ------------------------------------------------------- the signup page
\* The controls of the signup form: what querySelectorAll('input, button, select,
\* textarea') finds in it.  The submit button carries data-test="submit".
Controls == {"email-input", "name-input", "consent", "submit"}

\* What the visitor can type into the email input.
TypedAlphabet == {"a", "@", " "}

StatusInvalidEmail == "Please enter a valid email address (e.g., name@domain.com)."
StatusNoConsent == "Please agree to receive updates."
StatusAllSet == "All set! The email has been sent to this address."
StatusThanks == "Thanks! Check your email for a welcome message."
StatusMessage == "data.message"
StatusTryLater == "Thanks! If the email does not arrive, please try again later."

\* The characters that [^\s@] excludes.
SpaceOrAt == Whitespace \cup {"@"}

\* /^[^\s@]+@[^\s@]+.[^\s@]+$/.test(s): characters that are neither whitespace nor
\* an at sign, an at sign, such characters again, any one character, and such
\* characters again.
isValidEmail(s) ==
    \E i \in 2..(Len(s) - 3) :
        /\ s[i] = "@"
        /\ \A k \in 1..(i - 1) : s[k] \notin SpaceOrAt
        /\ \E d \in (i + 2)..(Len(s) - 1) :
               \A k \in (i + 1)..Len(s) : k # d => s[k] \notin SpaceOrAt

\* lockForm: every control of the form is disabled.
lockForm(d) == [c \in Controls |-> TRUE]

\* The busy marking of the submit handler: the disabled attribute of the submit
\* button is set before the request is sent ...
setDisabled(d) == [d EXCEPT !["submit"] = TRUE]

\* ... and removed in the finally block.
removeDisabled(d) == [d EXCEPT !["submit"] = FALSE]

\* ------------------------------------------------------------ the state
VARIABLES
    vbody,        \* validator run: the body given to validateInput
    vres,         \* validator run: what validateInput returned
    pc,           \* per request: where its handler stands
    body,         \* per request: the parsed body it carried
    proc,         \* per request: the server process that serves it
    signup,       \* per request: the signup record built from it
    attempts,     \* per request: storeInJsonFile's attempts counter
    local,        \* per request: storeInJsonFile's in-memory signups array
    err,          \* per request: the error thrown inside storeInJsonFile, "" if none
    resp,         \* per request: the response sent
    mail,         \* per request: what sendEmail did, in order
    lockFile,     \* signups.lock: whether it exists, and the pid written into it
    lockOwner,    \* the request whose writeFile created signups.lock (0: none)
    file,         \* signups.json: absent, unparsable, or a JSON array of signups
    dirExists,    \* whether the data directory exists
    alive,        \* per process: whether it is running
    isDryRun,     \* config.isDryRun: no EMAIL_API_KEY
    emailProvider, \* config.emailProvider
    rateLimitMap, \* Netlify: per address, the timestamps of its counted requests
    now,          \* Netlify: Date.now(), in milliseconds
    calls,        \* Netlify: per address, the POST requests received so far: when each
                  \* came, whether its body was valid, whether it was rate limited
    emailValue,   \* page: the value of the email input
    consentChecked, \* page: whether the consent checkbox is checked
    disabled,     \* page: per control of the signup form, its disabled state
    formState,    \* page: the form's data-state attribute ("" if absent)
    statusText,   \* page: the text of the status element
    hpc,          \* page: where the submit handler stands
    posted        \* page: the number of requests sent to the webhook so far

clientVars == <<emailValue, consentChecked, disabled, formState, statusText, hpc, posted>>

\* The page as loaded: empty inputs, every control enabled, nothing sent.
InitPage ==
    /\ emailValue = <<>>
    /\ consentChecked = FALSE
    /\ disabled = [c \in Controls |-> FALSE]
    /\ formState = ""
    /\ statusText = ""
    /\ hpc = "idle"
    /\ posted = 0

vars == <<vbody, vres, pc, body, proc, signup, attempts, local, err, resp, mail,
          lockFile, lockOwner, file, dirExists, alive, isDryRun, emailProvider,
          rateLimitMap, now, calls, clientVars>>

Req == 1..NumReq
Procs == {"p1", "p2"}
IPs == {"ip1", "ip2"}

\* Which process serves which request: all in one process, or the first request
\* in one process and the others in a second one.
ProcLayouts == {[r \in Req |-> "p1"], [r \in Req |-> IF r = 1 THEN "p1" ELSE "p2"]}

\* config.storageMode with the environment unset.
storageMode == "json"

\* config.emailProvider: the default, and a provider sendEmail has no branch for.
DefaultProvider == "resend"
Providers == {"resend", "sendgrid"}

NoBody == Body("none", Undef, Undef, Undef, Undef, Undef, Undef)
NoSignup == [req |-> 0, id |-> <<>>, name |-> Null, email |-> Null, consent |-> Null,
             timestamp |-> Null, userAgent |-> Null, referrer |-> Null, ip |-> ""]
NoResp == [status |-> 0, message |-> ""]
NoLock == [exists |-> FALSE, pid |-> ""]

Absent == [state |-> "absent", arr |-> <<>>]
Corrupt == [state |-> "corrupt", arr |-> <<>>]
Stored(arr) == [state |-> "array", arr |-> arr]

SuccessMsg == "Successfully subscribed! Check your email for confirmation."
ServerErrorMsg == "Internal server error. Please try again later."
LockErrorMsg == "Could not acquire file lock"
RateLimitMsg == "Too many requests. Please try again later."

\* The bodies the handlers are driven with: two valid ones (one already normalised,
\* one with padding, capitals, a padded name and a truthy non-boolean consent), one
\* the validator rejects (consent refused) and one it throws on (a numeric name).
HandlerBodies ==
    { Body("object", Undef, Str(<<"a", "@", "b">>), JsTrue, Undef, Undef, Undef),
      Body("object", Str(<<" ", "A", " ">>), Str(<<" ", "B", "@", "a", " ">>), Str(<<"y">>),
           Undef, Undef, Undef),
      Body("object", Undef, Str(<<"a", "@", "b">>), JsFalse, Undef, Undef, Undef),
      Body("object", JsNum, Str(<<"a", "@", "b">>), JsTrue, Undef, Undef, Undef) }

\* Math.random(), as far as generateId tells its values apart.  Where no claim
\* reads the id, one value stands for all.
AnyRandom == {0}
RandomValues == {0, 1}

\* generateId: the current time followed by the random suffix.
generateId(t, rnd) == <<t, rnd>>

\* The signup record of the handlers (the req field tells the records of different
\* requests apart; name is name || null).
buildSignup(r, d, ip, id) ==
    [req |-> r,
     id |-> id,
     name |-> IF Truthy(d.name) THEN d.name ELSE Null,
     email |-> d.email,
     consent |-> d.consent,
     timestamp |-> d.timestamp,
     userAgent |-> d.userAgent,
     referrer |-> d.referrer,
     ip |-> ip]

\* JSON.parse of what readFile returned: an absent or unparsable file leaves [].
parsedArray(f) == IF f.state = "array" THEN f.arr ELSE <<>>

InitCommon ==
    /\ vres = Pending
    /\ pc = [r \in Req |-> "idle"]
    /\ body = [r \in Req |-> NoBody]
    /\ proc \in ProcLayouts
    /\ signup = [r \in Req |-> NoSignup]
    /\ attempts = [r \in Req |-> 0]
    /\ local = [r \in Req |-> <<>>]
    /\ err = [r \in Req |-> ""]
    /\ resp = [r \in Req |-> NoResp]
    /\ mail = [r \in Req |-> <<>>]
    /\ lockFile = NoLock
    /\ lockOwner = 0
    /\ file = Absent
    /\ alive = [p \in Procs |-> TRUE]
    /\ rateLimitMap = [a \in IPs |-> <<>>]
    /\ now = 0
    /\ calls = [a \in IPs |-> <<>>]
    /\ InitPage

\* ------------------------------------------------- validator on its own
InitValidate ==
    /\ InitCommon
    /\ emailProvider = DefaultProvider
    /\ proc = [r \in Req |-> "p1"]
    /\ vbody \in ValBodies(MaxEmailLen)
    /\ dirExists = TRUE
    /\ isDryRun = TRUE

RunValidate ==
    /\ vres = Pending
    /\ vbody # NoBody
    /\ vres' = validateInput(vbody)
    /\ UNCHANGED <<clientVars, calls, rateLimitMap, now, vbody, pc, body, proc, signup, attempts, local, err, resp, mail,
                   lockFile, lockOwner, file, dirExists, alive, isDryRun, emailProvider>>

SpecValidate == InitValidate /\ [][RunValidate]_vars

\* ----------------------------------- validator on strings with markup
MarkupAlphabet == {"<", ">", "a"}

\* n characters without markup.
Pad(n) == [i \in 1..n |-> "a"]

\* Strings that end in up to len characters of the markup alphabet, short or
\* reaching up to and over the limit at which the validator truncates.
MarkupStrs(limit, len) ==
    {Pad(n) \o t : n \in {0, limit - 2, limit - 1}, t \in SeqsUpTo(MarkupAlphabet, len)}

\* Valid payloads (email and consent pass) whose name, userAgent or referrer is
\* such a string.
MarkupBodies(len) ==
    LET e == Str(<<"a", "@", "b">>) IN
    {Body("object", Str(n), e, JsTrue, Undef, Undef, Undef) : n \in MarkupStrs(NameMax, len)}
    \cup {Body("object", Undef, e, JsTrue, Undef, Str(u), Undef) : u \in MarkupStrs(FieldMax, len)}
    \cup {Body("object", Undef, e, JsTrue, Undef, Undef, Str(f)) : f \in MarkupStrs(FieldMax, len)}

InitSanitize ==
    /\ InitCommon
    /\ emailProvider = DefaultProvider
    /\ proc = [r \in Req |-> "p1"]
    /\ vbody \in MarkupBodies(MaxTagLen)
    /\ dirExists = TRUE
    /\ isDryRun = TRUE

SpecSanitize == InitSanitize /\ [][RunValidate]_vars

\* ------------------------------------------------ Express: POST /subscribe
\* The state after app.listen: no request yet, no lock, no signups.json; the data
\* directory may or may not have been created by the deployment.
Init ==
    /\ InitCommon
    /\ emailProvider = DefaultProvider
    /\ vbody = NoBody
    /\ dirExists \in BOOLEAN
    /\ isDryRun \in BOOLEAN

respond(r, status, message) == [resp EXCEPT ![r] = [status |-> status, message |-> message]]

expressIP == "ip1"

\* A handler that goes on whatever the validator said.
isValidAlways(v) == TRUE

\* validationResult.isValid
isValid(v) == v.kind = "ok"

\* The handler up to its first await: validateInput, the signup record, storeSignup
\* and storeInJsonFile up to the first writeFile of the lock.  A rejection answers
\* 400, a throw is caught by the handler and answers 500.
SubscribeWith(r, bodies, rnds) ==
    /\ pc[r] = "idle"
    /\ alive[proc[r]]
    /\ \E b \in bodies, rnd \in rnds :
         LET v == validateInput(b) IN
         /\ body' = [body EXCEPT ![r] = b]
         /\ CASE v.kind = "throw" ->
                   /\ resp' = respond(r, 500, ServerErrorMsg)
                   /\ pc' = [pc EXCEPT ![r] = "done"]
                   /\ UNCHANGED signup
              [] ~isValid(v) ->
                   /\ resp' = respond(r, 400, v.message)
                   /\ pc' = [pc EXCEPT ![r] = "done"]
                   /\ UNCHANGED signup
              [] OTHER ->
                   /\ signup' = [signup EXCEPT ![r] =
                                    buildSignup(r, v.data, expressIP, generateId(now, rnd))]
                   /\ pc' = [pc EXCEPT ![r] = IF storageMode = "json" THEN "lock" ELSE "notify"]
                   /\ UNCHANGED resp
    /\ UNCHANGED <<clientVars, calls, rateLimitMap, now, vbody, vres, proc, attempts, local, err, mail, lockFile, lockOwner, file,
                   dirExists, alive, isDryRun, emailProvider>>

Subscribe(r) == SubscribeWith(r, HandlerBodies, AnyRandom)

\* A lock file opened with flag 'w': created whether or not it exists.
lockCreatableAlways == dirExists

\* An exclusive create that takes over a lock file whose writer is gone.
lockCreatableOrStale ==
    dirExists /\ (~lockFile.exists \/ (lockFile.pid \in Procs /\ ~alive[lockFile.pid]))

\* fs.writeFile(lockPath, pid, { flag: 'wx' }): creates the file only if the
\* directory exists and the file does not.
lockCreatable == dirExists /\ ~lockFile.exists

\* A retry loop that forgets to count.
attemptsNotCounted(n) == n

\* attempts++
attemptsAfterFailure(n) == n + 1

\* A loop test that is off by one.
retryAllowedOffByOne(n) == n <= maxAttempts

\* The loop test of the retry loop: attempts < maxAttempts
retryAllowed(n) == n < maxAttempts

\* One turn of the retry loop: the exclusive create; on failure attempts++, the
\* 100 ms sleep and the loop test, and after the last attempt the throw, which the
\* handler answers with 500.  attempts is not read once the loop is left with the
\* lock: the model clears it there.
TryLock(r) ==
    /\ pc[r] = "lock"
    /\ alive[proc[r]]
    /\ IF lockCreatable
       THEN /\ lockFile' = [exists |-> TRUE, pid |-> proc[r]]
            /\ lockOwner' = r
            /\ pc' = [pc EXCEPT ![r] = "mkdir"]
            /\ attempts' = [attempts EXCEPT ![r] = 0]
            /\ UNCHANGED <<err, resp>>
       ELSE /\ attempts' = [attempts EXCEPT ![r] = attemptsAfterFailure(@)]
            /\ IF retryAllowed(attemptsAfterFailure(attempts[r]))
               THEN UNCHANGED <<pc, err, resp>>
               ELSE /\ err' = [err EXCEPT ![r] = LockErrorMsg]
                    /\ resp' = respond(r, 500, ServerErrorMsg)
                    /\ pc' = [pc EXCEPT ![r] = "done"]
            /\ UNCHANGED <<lockFile, lockOwner>>
    /\ UNCHANGED <<clientVars, calls, rateLimitMap, now, vbody, vres, body, proc, signup, local, mail, file, dirExists, alive,
                   isDryRun, emailProvider>>

\* fs.mkdir(dataDir, { recursive: true })
Mkdir(r) ==
    /\ pc[r] = "mkdir"
    /\ alive[proc[r]]
    /\ dirExists' = TRUE
    /\ pc' = [pc EXCEPT ![r] = "read"]
    /\ UNCHANGED <<clientVars, calls, rateLimitMap, now, vbody, vres, body, proc, signup, attempts, local, err, resp, mail,
                   lockFile, lockOwner, file, alive, isDryRun, emailProvider>>

\* readFile and JSON.parse (an absent or unparsable file: the empty array), then
\* signups.push(signup) and the call of writeFile.
ReadFile(r) ==
    /\ pc[r] = "read"
    /\ alive[proc[r]]
    /\ local' = [local EXCEPT ![r] = Append(parsedArray(file), signup[r])]
    /\ pc' = [pc EXCEPT ![r] = "write"]
    /\ UNCHANGED <<clientVars, calls, rateLimitMap, now, vbody, vres, body, proc, signup, attempts, err, resp, mail,
                   lockFile, lockOwner, file, dirExists, alive, isDryRun, emailProvider>>

\* readFile rejects (an I/O error): the catch leaves the empty array.
ReadFileFails(r) ==
    /\ pc[r] = "read"
    /\ alive[proc[r]]
    /\ local' = [local EXCEPT ![r] = <<signup[r]>>]
    /\ pc' = [pc EXCEPT ![r] = "write"]
    /\ UNCHANGED <<clientVars, calls, rateLimitMap, now, vbody, vres, body, proc, signup, attempts, err, resp, mail,
                   lockFile, lockOwner, file, dirExists, alive, isDryRun, emailProvider>>

\* writeFile(filePath, JSON.stringify(signups)) completes.
WriteFile(r) ==
    /\ pc[r] = "write"
    /\ alive[proc[r]]
    /\ file' = Stored(local[r])
    /\ pc' = [pc EXCEPT ![r] = "unlink"]
    /\ UNCHANGED <<clientVars, calls, rateLimitMap, now, vbody, vres, body, proc, signup, attempts, local, err, resp, mail,
                   lockFile, lockOwner, dirExists, alive, isDryRun, emailProvider>>

\* What a writeFile that fails can leave behind: the file as it was (the open
\* failed) or a truncated, unparsable file (the write stopped part-way).
failedWriteLeaves == {file, Corrupt}

\* writeFile rejects: the error leaves the try block of storeInJsonFile.
WriteFileFails(r) ==
    /\ pc[r] = "write"
    /\ alive[proc[r]]
    /\ file' \in failedWriteLeaves
    /\ err' = [err EXCEPT ![r] = "EIO"]
    /\ pc' = [pc EXCEPT ![r] = "unlink"]
    /\ UNCHANGED <<clientVars, calls, rateLimitMap, now, vbody, vres, body, proc, signup, attempts, local, resp, mail,
                   lockFile, lockOwner, dirExists, alive, isDryRun, emailProvider>>

\* After storeInJsonFile: a pending error is answered 500 by the handler's catch,
\* otherwise the handler goes on to sendNotificationEmail.
afterStore(r) ==
    IF err[r] = ""
    THEN /\ pc' = [pc EXCEPT ![r] = "notify"]
         /\ UNCHANGED resp
    ELSE /\ pc' = [pc EXCEPT ![r] = "done"]
         /\ resp' = respond(r, 500, ServerErrorMsg)

\* A release placed at the end of the try block instead of in finally: an error
\* skips it.
lockAfterReleaseOnSuccess(r) == IF err[r] = "" THEN NoLock ELSE lockFile

\* finally { fs.unlink(lockPath) }: the lock file is removed on both paths.
lockAfterRelease(r) == NoLock

\* finally: fs.unlink(lockPath), then the return or the rethrow (the in-memory
\* array goes out of scope).
Unlink(r) ==
    /\ pc[r] = "unlink"
    /\ alive[proc[r]]
    /\ lockFile' = lockAfterRelease(r)
    /\ lockOwner' = IF lockAfterRelease(r).exists THEN lockOwner ELSE 0
    /\ local' = [local EXCEPT ![r] = <<>>]
    /\ afterStore(r)
    /\ UNCHANGED <<clientVars, calls, rateLimitMap, now, vbody, vres, body, proc, signup, attempts, err, mail, file,
                   dirExists, alive, isDryRun, emailProvider>>

\* A sendEmail without the dry-run branch: the provider is called in every mode.
sendEmailIgnoresDryRun(r, kind, delivered) ==
    Append(mail[r], <<IF delivered THEN "sent" ELSE "failed", kind>>)

\* sendEmail: in dry-run mode the message is logged; otherwise the provider is
\* called and a failure (the send throws or rejects) is caught and logged; for a
\* provider without a branch the error thrown is caught the same way, no send
\* call is made.
sendEmail(r, kind, delivered) ==
    IF isDryRun THEN Append(mail[r], <<"log", kind>>)
    ELSE IF emailProvider = "resend"
         THEN Append(mail[r], <<IF delivered THEN "sent" ELSE "failed", kind>>)
         ELSE Append(mail[r], <<"unsupported", kind>>)

\* A sendEmail whose catch rethrows: a failed send reaches the handler.
sendRethrows(delivered) == ~isDryRun /\ ~delivered

\* Whether an error leaves sendEmail: its catch logs and does not throw.
sendThrows(delivered) == FALSE

\* The handler's catch, reached from a notification step.
failRequest(r) ==
    /\ resp' = respond(r, 500, ServerErrorMsg)
    /\ pc' = [pc EXCEPT ![r] = "done"]

\* sendNotificationEmail; in dry-run mode the confirmation is skipped and the
\* handler answers.
NotifyAdmin(r) ==
    /\ pc[r] = "notify"
    /\ alive[proc[r]]
    /\ \E delivered \in BOOLEAN :
         /\ mail' = [mail EXCEPT ![r] = sendEmail(r, "admin", delivered)]
         /\ IF sendThrows(delivered) THEN failRequest(r)
            ELSE IF isDryRun
                 THEN /\ resp' = respond(r, 200, SuccessMsg)
                      /\ pc' = [pc EXCEPT ![r] = "done"]
                 ELSE /\ pc' = [pc EXCEPT ![r] = "confirm"]
                      /\ UNCHANGED resp
    /\ UNCHANGED <<clientVars, calls, rateLimitMap, now, vbody, vres, body, proc, signup, attempts, local, err, lockFile,
                   lockOwner, file, dirExists, alive, isDryRun, emailProvider>>

\* sendConfirmationEmail and the success response.
Confirm(r) ==
    /\ pc[r] = "confirm"
    /\ alive[proc[r]]
    /\ \E delivered \in BOOLEAN :
         /\ mail' = [mail EXCEPT ![r] = sendEmail(r, "user", delivered)]
         /\ IF sendThrows(delivered) THEN failRequest(r)
            ELSE /\ resp' = respond(r, 200, SuccessMsg)
                 /\ pc' = [pc EXCEPT ![r] = "done"]
    /\ UNCHANGED <<clientVars, calls, rateLimitMap, now, vbody, vres, body, proc, signup, attempts, local, err, lockFile,
                   lockOwner, file, dirExists, alive, isDryRun, emailProvider>>

Step(r) ==
    \/ Subscribe(r)
    \/ TryLock(r)
    \/ Mkdir(r)
    \/ ReadFile(r)
    \/ WriteFile(r)
    \/ Unlink(r)
    \/ NotifyAdmin(r)
    \/ Confirm(r)

Next == \E r \in Req : Step(r)

\* The Express server with every file operation succeeding.
Spec == Init /\ [][Next]_vars

Fault(r) == ReadFileFails(r) \/ WriteFileFails(r)

NextFaults == \E r \in Req : Step(r) \/ Fault(r)

\* The Express server where readFile and writeFile of signups.json may fail.
SpecFaults == Init /\ [][NextFaults]_vars

InitNotify ==
    /\ InitCommon
    /\ vbody = NoBody
    /\ dirExists = TRUE
    /\ isDryRun \in BOOLEAN
    /\ emailProvider \in Providers

\* The Express server with or without an API key and with either provider
\* configured; file operations succeed.
SpecNotify == InitNotify /\ [][Next]_vars

\* process.on('SIGTERM' / 'SIGINT'): process.exit(0).  The requests the process
\* was serving end where they stand; a writeFile in flight may have truncated
\* signups.json; signups.lock stays if one of them held it.
Kill(p) ==
    /\ alive[p]
    /\ alive' = [alive EXCEPT ![p] = FALSE]
    /\ pc' = [r \in Req |->
                IF proc[r] = p /\ pc[r] \notin {"idle", "done"} THEN "killed" ELSE pc[r]]
    /\ file' \in IF \E r \in Req : proc[r] = p /\ pc[r] = "write"
                 THEN failedWriteLeaves ELSE {file}
    /\ UNCHANGED <<clientVars, calls, rateLimitMap, now, vbody, vres, body, proc, signup, attempts, local, err, resp, mail,
                   lockFile, lockOwner, dirExists, isDryRun, emailProvider>>

\* The body the requests carry where only the store is looked at.
StoreBodies ==
    {Body("object", Undef, Str(<<"a", "@", "b">>), JsTrue, Undef, Undef, Undef)}

SubscribeValid(r) == SubscribeWith(r, StoreBodies, AnyRandom)

\* In dry-run mode the handler answers after sendNotificationEmail: Confirm is
\* never reached.
StoreStep(r) ==
    \/ SubscribeValid(r)
    \/ TryLock(r)
    \/ Mkdir(r)
    \/ ReadFile(r)
    \/ WriteFile(r)
    \/ Unlink(r)
    \/ NotifyAdmin(r)

NextStore == \E r \in Req : StoreStep(r)

NextCrash == NextStore \/ (\E p \in Procs : Kill(p))

InitCrash == Init /\ isDryRun = TRUE

\* The Express server in dry-run mode, serving valid signups, whose processes may
\* be terminated at any moment.  While a timer or a file-system callback of a
\* running process is pending, the event loop eventually runs one.
SpecCrash == InitCrash /\ [][NextCrash]_vars /\ WF_vars(NextStore)

\* ------------------------------------------- Netlify: exports.handler
\* A window test that still counts a timestamp exactly one window old.
isRecentInclusive(t, windowStart) == t >= windowStart

\* t > windowStart
isRecent(t, windowStart) == t > windowStart

\* timestamps.filter(t => t > windowStart)
RECURSIVE filterRecent(_, _)
filterRecent(ts, windowStart) ==
    IF ts = <<>> THEN <<>>
    ELSE IF isRecent(Head(ts), windowStart)
         THEN <<Head(ts)>> \o filterRecent(Tail(ts), windowStart)
         ELSE filterRecent(Tail(ts), windowStart)

\* checkRateLimit(ip): every address loses its timestamps older than the window
\* (an address left with none is deleted: the empty sequence); the request is
\* allowed, and counted, when the address has fewer than rateLimitMax left.
checkRateLimit(ip) ==
    LET windowStart == now - rateLimitWindow
        cleaned == [a \in IPs |-> filterRecent(rateLimitMap[a], windowStart)]
        recentRequests == filterRecent(cleaned[ip], windowStart)
    IN IF Len(recentRequests) >= rateLimitMax
       THEN [allowed |-> FALSE, map |-> cleaned]
       ELSE [allowed |-> TRUE, map |-> [cleaned EXCEPT ![ip] = Append(recentRequests, now)]]

\* event.body that JSON.parse rejects.
BadJson == Body("badjson", Undef, Undef, Undef, Undef, Undef, Undef)

\* The events the function is invoked with: POST from either address with a body the
\* handlers are driven with or with malformed JSON, a GET and a preflight OPTIONS.
NetlifyEvents ==
    {[httpMethod |-> "POST", ip |-> a, body |-> b] :
        a \in IPs, b \in HandlerBodies \cup {BadJson}}
    \cup {[httpMethod |-> m, ip |-> "ip1", body |-> NoBody] : m \in {"GET", "OPTIONS"}}

InitNetlify ==
    /\ InitCommon
    /\ emailProvider = DefaultProvider
    /\ proc = [r \in Req |-> "p1"]
    /\ vbody = NoBody
    /\ dirExists = TRUE
    /\ isDryRun \in BOOLEAN

\* How many POSTs the function has received.
callCount == Len(calls["ip1"]) + Len(calls["ip2"])

\* The handler up to its first await: the method tests, getClientIP and
\* checkRateLimit, JSON.parse, validateInput, the signup record, storeSignup and
\* storeInJsonFile up to the call of readFile.  Where noted, every POST is
\* written down in calls, and at most MaxCalls are received.
HandlerWith(r, events, noted) ==
    /\ pc[r] = "idle"
    /\ \E ev \in events, rnd \in AnyRandom :
         LET rl == checkRateLimit(ev.ip)
             v == validateInput(ev.body)
             answer(status, message) ==
                 /\ resp' = respond(r, status, message)
                 /\ pc' = [pc EXCEPT ![r] = "done"]
                 /\ UNCHANGED signup
         IN
         /\ noted => callCount < MaxCalls
         /\ body' = [body EXCEPT ![r] = ev.body]
         /\ rateLimitMap' = IF ev.httpMethod = "POST" THEN rl.map ELSE rateLimitMap
         /\ calls' = IF noted /\ ev.httpMethod = "POST"
                      THEN [calls EXCEPT ![ev.ip] =
                               Append(@, [t |-> now,
                                          valid |-> ev.body # BadJson /\ v.kind = "ok",
                                          limited |-> ~rl.allowed])]
                      ELSE calls
         /\ CASE ev.httpMethod = "OPTIONS" -> answer(200, "")
              [] ev.httpMethod # "POST" -> answer(405, "Method not allowed")
              [] ~rl.allowed -> answer(429, RateLimitMsg)
              [] ev.body = BadJson -> answer(400, "Invalid JSON in request body")
              [] v.kind = "throw" -> answer(500, ServerErrorMsg)
              [] ~isValid(v) -> answer(400, v.message)
              [] OTHER ->
                   /\ signup' = [signup EXCEPT ![r] =
                                    buildSignup(r, v.data, ev.ip, generateId(now, rnd))]
                   /\ pc' = [pc EXCEPT ![r] = IF storageMode = "json" THEN "nread" ELSE "notify"]
                   /\ UNCHANGED resp
    /\ UNCHANGED <<clientVars, now, vbody, vres, proc, attempts, local, err, mail, lockFile, lockOwner,
                   file, dirExists, alive, isDryRun, emailProvider>>

Handler(r) == HandlerWith(r, NetlifyEvents, FALSE)

\* readFile of /tmp/signups.json and JSON.parse, signups.push(signup) and the call
\* of writeFile.  No lock is taken.
NetlifyRead(r) ==
    /\ pc[r] = "nread"
    /\ local' = [local EXCEPT ![r] = Append(parsedArray(file), signup[r])]
    /\ pc' = [pc EXCEPT ![r] = "nwrite"]
    /\ UNCHANGED <<clientVars, calls, rateLimitMap, now, vbody, vres, body, proc, signup, attempts, err, resp,
                   mail, lockFile, lockOwner, file, dirExists, alive, isDryRun, emailProvider>>

\* readFile rejects: the inner catch leaves the empty array.
NetlifyReadFails(r) ==
    /\ pc[r] = "nread"
    /\ local' = [local EXCEPT ![r] = <<signup[r]>>]
    /\ pc' = [pc EXCEPT ![r] = "nwrite"]
    /\ UNCHANGED <<clientVars, calls, rateLimitMap, now, vbody, vres, body, proc, signup, attempts, err, resp,
                   mail, lockFile, lockOwner, file, dirExists, alive, isDryRun, emailProvider>>

\* writeFile completes; storeInJsonFile returns to the handler.
NetlifyWrite(r) ==
    /\ pc[r] = "nwrite"
    /\ file' = Stored(local[r])
    /\ local' = [local EXCEPT ![r] = <<>>]
    /\ pc' = [pc EXCEPT ![r] = "notify"]
    /\ UNCHANGED <<clientVars, calls, rateLimitMap, now, vbody, vres, body, proc, signup, attempts, err, resp,
                   mail, lockFile, lockOwner, dirExists, alive, isDryRun, emailProvider>>

\* Where the handler stands after storeInJsonFile's outer catch has logged a
\* failed write: the catch does not rethrow, the handler goes on.
afterLoggedFailure == "notify"

\* writeFile rejects: the outer catch of storeInJsonFile logs the error and the
\* signup and returns normally.
NetlifyWriteFails(r) ==
    /\ pc[r] = "nwrite"
    /\ file' \in failedWriteLeaves
    /\ err' = [err EXCEPT ![r] = "EIO"]
    /\ local' = [local EXCEPT ![r] = <<>>]
    /\ pc' = [pc EXCEPT ![r] = afterLoggedFailure]
    /\ UNCHANGED <<clientVars, calls, rateLimitMap, now, vbody, vres, body, proc, signup, attempts, resp,
                   mail, lockFile, lockOwner, dirExists, alive, isDryRun, emailProvider>>

\* Time passes (Date.now() advances): half a rate-limit window.
Tick ==
    /\ now < MaxTicks * (rateLimitWindow \div 2)
    /\ now' = now + (rateLimitWindow \div 2)
    /\ UNCHANGED <<clientVars, calls, rateLimitMap, vbody, vres, pc, body, proc, signup, attempts, local,
                   err, resp, mail, lockFile, lockOwner, file, dirExists, alive, isDryRun, emailProvider>>

NetlifyStep(r) ==
    \/ Handler(r)
    \/ NetlifyRead(r)
    \/ NetlifyWrite(r)
    \/ NotifyAdmin(r)
    \/ Confirm(r)

NextNetlify == (\E r \in Req : NetlifyStep(r)) \/ Tick

\* The Netlify function with every file operation succeeding: the invocations of
\* one instance interleave at their awaits.
SpecNetlify == InitNetlify /\ [][NextNetlify]_vars

NetlifyFault(r) == NetlifyReadFails(r) \/ NetlifyWriteFails(r)

NextNetlifyFaults == (\E r \in Req : NetlifyStep(r) \/ NetlifyFault(r)) \/ Tick

\* The Netlify function where readFile and writeFile of /tmp/signups.json may fail.
SpecNetlifyFaults == InitNetlify /\ [][NextNetlifyFaults]_vars

\* --------------------------------------------- Express: the identifiers
SubscribeIds(r) == SubscribeWith(r, StoreBodies, RandomValues)

NextIds ==
    \/ \E r \in Req :
          \/ SubscribeIds(r)
          \/ TryLock(r)
          \/ Mkdir(r)
          \/ ReadFile(r)
          \/ WriteFile(r)
          \/ Unlink(r)
          \/ NotifyAdmin(r)
    \/ Tick

InitIds == Init /\ dirExists = TRUE /\ isDryRun = TRUE

\* The Express server in dry-run mode serving valid signups, the clock advancing
\* between them or not, Math.random() returning one of two values.
SpecIds == InitIds /\ [][NextIds]_vars

\* ------------------------------------- Netlify: one invocation after another
ValidBody == Body("object", Undef, Str(<<"a", "@", "b">>), JsTrue, Undef, Undef, Undef)
RefusedBody == Body("object", Undef, Str(<<"a", "@", "b">>), JsFalse, Undef, Undef, Undef)

\* Valid POSTs of one address, and POSTs of a second address (malformed JSON).
RateEvents ==
    {[httpMethod |-> "POST", ip |-> "ip1", body |-> ValidBody],
     [httpMethod |-> "POST", ip |-> "ip2", body |-> BadJson]}

RateHandler(r) == HandlerWith(r, RateEvents, TRUE)

\* The same, where the first address also sends a body the validator rejects and
\* malformed JSON.
MixedEvents ==
    RateEvents \cup
    {[httpMethod |-> "POST", ip |-> "ip1", body |-> b] : b \in {RefusedBody, BadJson}}

MixedHandler(r) == HandlerWith(r, MixedEvents, TRUE)

\* POSTs of one address with a valid body, bodies the validator rejects (consent
\* refused, no email, a malformed email) or malformed JSON.
RejectEvents ==
    {[httpMethod |-> "POST", ip |-> "ip1", body |-> b] :
        b \in {ValidBody, RefusedBody, BadJson,
               Body("object", Undef, Undef, JsTrue, Undef, Undef, Undef),
               Body("object", Undef, Str(<<"a", "@">>), JsTrue, Undef, Undef, Undef)}}

RejectHandler(r) == HandlerWith(r, RejectEvents, FALSE)

\* The invocation has returned its response; the function instance takes the next
\* event (the variables of the invocation are gone).
Return(r) ==
    /\ pc[r] = "done"
    /\ pc' = [pc EXCEPT ![r] = "idle"]
    /\ body' = [body EXCEPT ![r] = NoBody]
    /\ signup' = [signup EXCEPT ![r] = NoSignup]
    /\ resp' = [resp EXCEPT ![r] = NoResp]
    /\ mail' = [mail EXCEPT ![r] = <<>>]
    /\ err' = [err EXCEPT ![r] = ""]
    /\ UNCHANGED <<clientVars, calls, rateLimitMap, now, vbody, vres, proc, attempts, local, lockFile,
                   lockOwner, file, dirExists, alive, isDryRun, emailProvider>>

NextRate ==
    \/ RateHandler(1)
    \/ NetlifyRead(1)
    \/ NetlifyWrite(1)
    \/ NotifyAdmin(1)
    \/ Return(1)
    \/ Tick

InitRate == InitNetlify /\ isDryRun = TRUE

\* The Netlify function in dry-run mode serving one invocation after another.
SpecRate == InitRate /\ [][NextRate]_vars

NextRateMixed ==
    \/ MixedHandler(1)
    \/ NetlifyRead(1)
    \/ NetlifyWrite(1)
    \/ NotifyAdmin(1)
    \/ Return(1)
    \/ Tick

\* The same with valid and invalid requests mixed.
SpecRateMixed == InitRate /\ [][NextRateMixed]_vars

NextReject ==
    \/ RejectHandler(1)
    \/ NetlifyRead(1)
    \/ NetlifyWrite(1)
    \/ NotifyAdmin(1)
    \/ Confirm(1)
    \/ Return(1)
    \/ Tick

\* The Netlify function serving one invocation after another, valid and invalid
\* requests mixed, with or without an API key.
SpecReject == InitNetlify /\ [][NextReject]_vars

\* ------------------------------------------------------ claims: the store
\* The states of a request inside storeInJsonFile, and those in which it holds the
\* lock (from the exclusive create to the unlink).
InStore == {"lock", "mkdir", "read", "write", "unlink"}
InCritical == {"mkdir", "read", "write", "unlink"}

Succeeded(r) == resp[r].status = 200 /\ resp[r].message = SuccessMsg
ServerError(r) == resp[r].status = 500 /\ resp[r].message = ServerErrorMsg

\* How many elements of signups.json are the record of request r.
copiesInFile(r) ==
    IF file.state = "array"
    THEN Cardinality({i \in 1..Len(file.arr) : file.arr[i] = signup[r]})
    ELSE 0

\* C1: Express, storageMode json, file operations succeeding: whatever the
\* interleaving of the requests, a request answered with success has its record
\* in signups.json exactly once, in particular once all requests have completed.
C1_AcceptedStoredOnce ==
    \A r \in Req : Succeeded(r) => copiesInFile(r) = 1

\* C1 witness: every request has completed with success and all records are there.
C1_Witness ==
    /\ \A r \in Req : pc[r] = "done" /\ Succeeded(r)
    /\ file.state = "array" /\ Len(file.arr) = NumReq

\* C2: at most one invocation is between its exclusive create of signups.lock and
\* its unlink, the lock file exists exactly while one is, it was created by that
\* one, and only that one removes it.
C2_MutualExclusion ==
    /\ [](/\ Cardinality({r \in Req : pc[r] \in InCritical}) <= 1
          /\ \A r \in Req : pc[r] \in InCritical => lockFile.exists /\ lockOwner = r)
    /\ [][(lockFile.exists /\ ~lockFile'.exists)
            => (pc[lockOwner] = "unlink" /\ pc'[lockOwner] \notin InStore)]_vars

\* C2 witness: one request is rewriting the file while another has already failed
\* to create the lock and is retrying.
C2_Witness ==
    \E r, q \in Req : pc[r] = "write" /\ pc[q] = "lock" /\ attempts[q] >= 1

C5_LockTimeout ==
    /\ [](\A r \in Req : err[r] = LockErrorMsg =>
              /\ attempts[r] = maxAttempts
              /\ pc[r] = "done" /\ ServerError(r)
              /\ local[r] = <<>>
              /\ copiesInFile(r) = 0)
    /\ [][\A r \in Req : (err[r] # LockErrorMsg /\ err'[r] = LockErrorMsg)
              => (lockFile' = lockFile /\ lockOwner' = lockOwner /\ file' = file
                  /\ dirExists' = dirExists)]_vars
    /\ [](\A r \in Req : attempts[r] = maxAttempts => err[r] = LockErrorMsg)

\* C5 witness: a request has timed out while another invocation still holds the
\* sentinel.
C5_Witness ==
    \E r, q \in Req : err[r] = LockErrorMsg /\ ServerError(r)
                      /\ pc[q] \in InCritical /\ lockFile.exists

\* C6: an invocation makes at most 10 lock-creation attempts, and whatever the
\* others do (a holder that was terminated never releases the lock) every
\* invocation leaves the retry loop and the store operation: from some moment on
\* none is inside storeInJsonFile.
C6_BoundedWait ==
    /\ [](\A r \in Req : attempts[r] <= maxAttempts
                         /\ (pc[r] = "lock" => attempts[r] < maxAttempts))
    /\ <>[](\A r \in Req : pc[r] \notin InStore)

\* C6 witness: the lock is held by a terminated process and a request of a running
\* process has given up after its 10 attempts.
C6_Witness ==
    /\ lockFile.exists /\ lockOwner # 0 /\ pc[lockOwner] = "killed"
    /\ \E r \in Req : alive[proc[r]] /\ pc[r] = "done" /\ err[r] = LockErrorMsg

\* C7: a successful append leaves the array that was stored, unchanged and in
\* order, followed by the new record, and no append removes a record that an
\* earlier append reported as stored.
C7_AppendPreserves ==
    /\ [][\A r \in Req : (pc[r] = "write" /\ pc'[r] = "unlink" /\ err'[r] = "")
              => file' = Stored(Append(file.arr, signup[r]))]_vars
    /\ [](\A r \in Req : Succeeded(r) => copiesInFile(r) >= 1)

\* C10: every record in the signup file has consent true and a non-empty email
\* that is the trimmed, lower-cased form of the email its request submitted and
\* matches the address grammar.
C10_StoredRecordInvariant ==
    \A i \in 1..Len(file.arr) :
        LET rec == file.arr[i] IN
        /\ rec.consent = JsTrue
        /\ IsString(rec.email) /\ rec.email.v # <<>>
        /\ IsString(body[rec.req].email)
        /\ rec.email.v = toLowerCase(trim(body[rec.req].email.v))
        /\ emailRegexTest(rec.email.v)

\* C10 witness: the file holds a record whose submitted email was padded and
\* capitalised and whose submitted consent was a truthy non-boolean.
C10_Witness ==
    \E i \in 1..Len(file.arr) :
        /\ body[file.arr[i].req].email.v # file.arr[i].email.v
        /\ body[file.arr[i].req].consent # JsTrue

\* ------------------------------------------------- claims: the handlers
\* C3: a validated signup whose write to the signup file failed is answered with
\* status 500 and the generic message, never with the success response.
C3_StorageFailureIs500 ==
    \A r \in Req : err[r] = "EIO" =>
        /\ ~Succeeded(r)
        /\ pc[r] = "done" => ServerError(r)

\* C8: Netlify, file operations succeeding: once all invocations have completed,
\* every invocation that returned the success response has its record in
\* /tmp/signups.json.
C8_NetlifyAcceptedStored ==
    (\A r \in Req : pc[r] = "done")
        => \A r \in Req : Succeeded(r) => copiesInFile(r) >= 1

\* ------------------------------------------------ claims: the validator
\* The rejection the rules give, taken in order: no object; email missing (absent,
\* null or empty) or no string; trimmed lower-cased email outside the grammar;
\* consent falsy.  "" when no rule is violated.
firstViolatedRule(b) ==
    IF b.t \notin {"object", "array"} THEN "Invalid request body"
    ELSE IF b.email \in {Undef, Null, Str(<<>>)} \/ b.email.t # "string"
         THEN "Email is required"
    ELSE IF ~emailRegexTest(toLowerCase(trim(b.email.v))) THEN "Invalid email format"
    ELSE IF b.consent \in {Undef, Null, JsFalse, JsZero, Str(<<>>)} THEN "Consent is required"
    ELSE ""

\* C9: the first violated rule determines the rejection, and a body that violates
\* no rule is accepted.
C9_FirstFailureWins ==
    vres # Pending =>
        IF firstViolatedRule(vbody) = ""
        THEN vres.kind = "ok"
        ELSE vres = Reject(firstViolatedRule(vbody))

\* C12: for every parsed body validateInput returns a sanitized record or a
\* rejection with a reason; it does not throw.
C12_ValidatorTotal ==
    vres # Pending =>
        \/ vres.kind = "ok"
        \/ vres.kind = "reject" /\ vres.message # ""

\* A string holds markup when an opening angle bracket is followed, somewhere
\* later, by a closing one.
HasMarkup(s) == \E i \in 1..Len(s) : s[i] = "<" /\ \E j \in (i + 1)..Len(s) : s[j] = ">"

NoMarkup(x) == IsString(x) => ~HasMarkup(x.v)

\* C11: for every accepted payload the name, userAgent and referrer of the record
\* built from it hold no markup, and none is longer than its limit.
C11_NoMarkupStored ==
    vres.kind = "ok" =>
        LET rec == buildSignup(1, vres.data, expressIP, generateId(now, 0)) IN
        /\ NoMarkup(rec.name) /\ NoMarkup(rec.userAgent) /\ NoMarkup(rec.referrer)
        /\ IsString(rec.name) => Len(rec.name.v) <= NameMax
        /\ IsString(rec.userAgent) => Len(rec.userAgent.v) <= FieldMax
        /\ IsString(rec.referrer) => Len(rec.referrer.v) <= FieldMax

\* C11 witness: an accepted payload whose userAgent is longer than the limit and
\* holds markup that the truncation cuts into.
C11_Witness ==
    /\ vres.kind = "ok"
    /\ IsString(vbody.userAgent)
    /\ Len(vbody.userAgent.v) > FieldMax
    /\ HasMarkup(vbody.userAgent.v)
    /\ ~HasMarkup(substring0(vbody.userAgent.v, FieldMax))
    /\ vres.data.userAgent.v # <<>>

\* ---------------------------------------------- claims: the rate limiter
\* The earlier requests of address a that lie in the window ending at its k-th
\* request: the valid ones, and the ones that were counted (not rate limited).
validBefore(a, k) ==
    {j \in 1..(k - 1) : calls[a][j].valid /\ calls[a][j].t > calls[a][k].t - rateLimitWindow}

countedBefore(a, k) ==
    {j \in 1..(k - 1) : ~calls[a][j].limited /\ calls[a][j].t > calls[a][k].t - rateLimitWindow}

\* C13: a valid request with fewer than five valid requests of its address before
\* it in the window passes the rate limiter; one with five that passed before it
\* in the window is rejected; and the rejection answers 429 with the rate-limit
\* message without building a record, touching the signup file or sending mail.
C13_FirstFivePass ==
    /\ [](\A a \in IPs : \A k \in 1..Len(calls[a]) :
             calls[a][k].valid =>
                 /\ Cardinality(validBefore(a, k)) < rateLimitMax => ~calls[a][k].limited
                 /\ Cardinality(validBefore(a, k) \cap countedBefore(a, k)) >= rateLimitMax
                        => calls[a][k].limited)
    /\ [][\A r \in Req : (resp[r].status # 429 /\ resp'[r].status = 429) =>
              /\ resp'[r].message = RateLimitMsg
              /\ pc'[r] = "done" /\ signup'[r] = NoSignup
              /\ file' = file /\ mail' = mail]_vars

\* The timestamps of the requests of address a that were counted, oldest first.
RECURSIVE countedTimes(_)
countedTimes(cs) ==
    IF cs = <<>> THEN <<>>
    ELSE IF Head(cs).limited THEN countedTimes(Tail(cs))
         ELSE <<Head(cs).t>> \o countedTimes(Tail(cs))

\* C14: a request is rate limited exactly when five or more counted requests of
\* its address are less than a window older than it; rejected requests are not
\* counted: the map holds, per address, the latest counted timestamps and nothing
\* else.
C14_SlidingWindow ==
    \A a \in IPs :
        /\ \A k \in 1..Len(calls[a]) :
               calls[a][k].limited <=> Cardinality(countedBefore(a, k)) >= rateLimitMax
        /\ LET ct == countedTimes(calls[a]) IN
           \E n \in 0..Len(ct) : rateLimitMap[a] = SubSeq(ct, n + 1, Len(ct))

\* C14 witness: an address made five counted requests, was rejected half a window
\* later, and is allowed once the five are a full window old.
C14_Witness ==
    \E a \in IPs : \E i, k \in 1..Len(calls[a]) :
        /\ i < k
        /\ calls[a][i].limited /\ calls[a][i].t > calls[a][1].t
        /\ ~calls[a][k].limited
        /\ Cardinality({m \in 1..(i - 1) : ~calls[a][m].limited}) = rateLimitMax

\* How many recorded timestamps of address a lie in the window that ends now.
slotsUsed(m, a) ==
    Cardinality({i \in 1..Len(m[a]) : m[a][i] > now - rateLimitWindow})

\* C19: a request answered 400 (malformed JSON or a validator rejection) leaves
\* the number of window slots each address has used as it was.
C19_RejectedUsesNoSlot ==
    [][\A r \in Req : (resp[r].status # 400 /\ resp'[r].status = 400) =>
          \A a \in IPs : slotsUsed(rateLimitMap', a) = slotsUsed(rateLimitMap, a)]_vars

\* ------------------------------------------------ claims: notification
AdminLogged == <<"log", "admin">>

\* C15: a request that reached the notification steps is answered with success
\* whatever the outcome of the sends, the notification steps leave the signup
\* file as it is, and the record of the request is in the file.
C15_NotificationSwallowed ==
    /\ [](\A r \in Req :
             /\ (pc[r] = "done" /\ mail[r] # <<>>) => Succeeded(r)
             /\ mail[r] # <<>> => copiesInFile(r) = 1
             /\ (~isDryRun /\ Succeeded(r)) => Len(mail[r]) = 2)
    /\ [][mail' # mail => file' = file]_vars

\* C15 witness: outside dry-run mode both sends failed, the request was answered
\* with success and its record is in the file.
C15_Witness ==
    /\ ~isDryRun
    /\ \E r \in Req :
          /\ pc[r] = "done" /\ Succeeded(r) /\ copiesInFile(r) = 1
          /\ mail[r] = << <<"failed", "admin">>, <<"failed", "user">> >>

C17_PipelineOrder ==
    /\ [][\A r \in Req : mail'[r] # mail[r] => copiesInFile(r) >= 1]_vars
    /\ [](\A r \in Req :
             /\ Len(mail[r]) <= 2
             /\ \A i \in 1..Len(mail[r]) : mail[r][i][2] = IF i = 1 THEN "admin" ELSE "user"
             /\ Succeeded(r) => Len(mail[r]) = IF isDryRun THEN 1 ELSE 2)

\* C18: the step that handles a request which is rate limited, carries malformed
\* JSON or violates a validation rule answers it (429 or 400) and leaves the
\* signup file, the lock file and the emails as they are; no record is built for it.
C18_RejectedNoEffect ==
    /\ [][\A r \in Req :
             (/\ pc[r] = "idle" /\ pc'[r] # "idle"
              /\ \/ resp'[r].status = 429
                 \/ body'[r] = BadJson
                 \/ body'[r] # NoBody /\ firstViolatedRule(body'[r]) # "")
             => /\ pc'[r] = "done" /\ resp'[r].status \in {400, 429}
                /\ signup'[r] = NoSignup
                /\ file' = file /\ lockFile' = lockFile /\ mail' = mail]_vars
    /\ [](\A r \in Req : resp[r].status \in {400, 429} =>
             pc[r] = "done" /\ signup[r] = NoSignup /\ mail[r] = <<>>)

\* C18 witness: five signups are stored and the sixth request of the address has
\* been answered 429.
C18_Witness ==
    \E r \in Req : /\ resp[r].status = 429 /\ resp[r].message = RateLimitMsg
                    /\ file.state = "array" /\ Len(file.arr) = rateLimitMax

\* ------------------------------------------------- claims: identifiers
\* C20: no two records of the signup file have the same id.
C20_UniqueIds ==
    \A i, j \in 1..Len(file.arr) : i # j => file.arr[i].id # file.arr[j].id

\* ------------------------------------------- claims: fresh deployment
\* C21: the first valid signup of a deployment (no other request has started),
\* once handled, has left the data directory in place, is answered with
\* success and its record is in signups.json, whether or not the directory
\* existed when the server started.
C21_FreshDeployment ==
    \A r \in Req :
        (/\ pc[r] = "done"
         /\ isValid(validateInput(body[r]))
         /\ \A q \in Req \ {r} : pc[q] = "idle")
        => (dirExists /\ Succeeded(r) /\ copiesInFile(r) = 1)

\* ------------------------------------------------------- the signup page
serverVars == <<vbody, vres, pc, body, proc, signup, attempts, local, err, resp, mail,
                lockFile, lockOwner, file, dirExists, alive, isDryRun, emailProvider,
                rateLimitMap, now, calls>>

\* The visitor types one character into the email input, or deletes the last one.
TypeChar(c) ==
    /\ ~disabled["email-input"]
    /\ Len(emailValue) < MaxTyped
    /\ emailValue' = Append(emailValue, c)
    /\ UNCHANGED <<serverVars, consentChecked, disabled, formState, statusText, hpc, posted>>

Backspace ==
    /\ ~disabled["email-input"]
    /\ emailValue # <<>>
    /\ emailValue' = SubSeq(emailValue, 1, Len(emailValue) - 1)
    /\ UNCHANGED <<serverVars, consentChecked, disabled, formState, statusText, hpc, posted>>

\* The visitor ticks or unticks the consent checkbox.
ToggleConsent ==
    /\ ~disabled["consent"]
    /\ consentChecked' = ~consentChecked
    /\ UNCHANGED <<serverVars, emailValue, disabled, formState, statusText, hpc, posted>>

\* The submit listener up to its first await.  A form whose submit button is
\* disabled does not fire the submit event.  An invalid email or a missing consent
\* ends the handler with a message; otherwise the button is disabled and the
\* request is sent.
submitHandler ==
    /\ ~disabled["submit"]
    /\ LET email == trim(emailValue)
       IN CASE ~isValidEmail(email) ->
                   /\ statusText' = StatusInvalidEmail
                   /\ UNCHANGED <<disabled, hpc, posted>>
            [] isValidEmail(email) /\ ~consentChecked ->
                   /\ statusText' = StatusNoConsent
                   /\ UNCHANGED <<disabled, hpc, posted>>
            [] OTHER ->
                   /\ posted < MaxPosts
                   /\ statusText' = StatusAllSet
                   /\ disabled' = setDisabled(disabled)
                   /\ posted' = posted + 1
                   /\ hpc' = "fetch"
    /\ UNCHANGED <<serverVars, emailValue, consentChecked, formState>>

\* fetch settles.  An answer that is OK leads to the await of res.json(); any
\* other answer, and a rejected fetch, set the try-later message and run the
\* finally block.
FetchOutcomes == {"ok", "not ok", "rejected"}

fetchSettles(outcome) ==
    /\ hpc = "fetch"
    /\ IF outcome = "ok"
       THEN /\ hpc' = "json"
            /\ UNCHANGED <<statusText, disabled>>
       ELSE /\ statusText' = StatusTryLater
            /\ disabled' = removeDisabled(disabled)
            /\ hpc' = "idle"
    /\ UNCHANGED <<serverVars, emailValue, consentChecked, formState, posted>>

\* res.json() settles after an OK answer: with a message, without one, or by
\* throwing (then data stays {}).  The status is set, lockForm runs, and then the
\* finally block.
JsonOutcomes == {"message", "no message", "throws"}

jsonSettles(data) ==
    /\ hpc = "json"
    /\ statusText' = IF data = "message" THEN StatusMessage ELSE StatusThanks
    /\ formState' = "submitted"
    /\ disabled' = removeDisabled(lockForm(disabled))
    /\ hpc' = "idle"
    /\ UNCHANGED <<serverVars, emailValue, consentChecked, posted>>

NextClient ==
    \/ \E c \in TypedAlphabet : TypeChar(c)
    \/ Backspace
    \/ ToggleConsent
    \/ submitHandler
    \/ \E outcome \in FetchOutcomes : fetchSettles(outcome)
    \/ \E data \in JsonOutcomes : jsonSettles(data)

InitClient == Init /\ dirExists = TRUE /\ isDryRun = TRUE /\ proc = [r \in Req |-> "p1"]

\* One page with the signup form, its visitor, and the webhook answering.
SpecClient == InitClient /\ [][NextClient]_vars

\* ---------------------------------------------------- claims: client form
\* C22: once the webhook has answered OK and lockForm has run (the form carries
\* data-state "submitted") and the submit handler has finished, every control of
\* the form, the submit button included, is disabled.
C22_FormStaysLocked ==
    (formState = "submitted" /\ hpc = "idle") => \A c \in Controls : disabled[c]

\* ------------------------------------------------ claims: stale lock
\* signups.lock exists and the invocation that created it ended with its process.
StaleLock == lockFile.exists /\ lockOwner # 0 /\ pc[lockOwner] = "killed"

\* C23: once signups.lock is left behind by a terminated process, no step removes
\* or replaces it and signups.json is never written again; every invocation that
\* leaves the retry loop from then on does so with the lock-timeout error and is
\* answered 500, and the invocations waiting in the loop do leave it.
C23_NoStaleLockRecovery ==
    /\ [][StaleLock =>
            /\ StaleLock' /\ lockFile' = lockFile /\ file' = file
            /\ \A r \in Req :
                   (pc[r] = "lock" /\ pc'[r] \notin {"lock", "killed"})
                   => (pc'[r] = "done" /\ err'[r] = LockErrorMsg
                       /\ resp'[r].status = 500 /\ attempts'[r] = maxAttempts)]_vars
    /\ StaleLock ~> (\A r \in Req : pc[r] # "lock")

\* C23 witness: the lock file names a terminated process, and an invocation in
\* another, running process has used up its attempts, was answered 500, and its
\* record is not in the file.
C23_Witness ==
    /\ StaleLock /\ ~alive[lockFile.pid]
    /\ \E r \in Req :
           /\ proc[r] # lockFile.pid /\ alive[proc[r]]
           /\ pc[r] = "done" /\ attempts[r] = maxAttempts
           /\ err[r] = LockErrorMsg /\ ServerError(r)
           /\ copiesInFile(r) = 0

====
